---- MODULE Spec2Model ----
(***************************************************************************)
(* Model of static/js/app.js: the browser-side form, example list,         *)
(* generation / test round trips, health check and status messaging.       *)
(*                                                                         *)
(* Strings are TLA+ strings; text entered by the user is drawn from Texts. *)
(* The error marker (U+2717 followed by a space), the success marker       *)
(* (U+2713) and the warning marker (U+26A0) of the source are written in   *)
(* ASCII as "x ", "v " and "! ".                                           *)
(***************************************************************************)
EXTENDS Integers, Sequences, FiniteSets, TLC

\* ------------------------------------------------------------------ bounds
\* cap on the number of addExample calls (exampleCount only grows)
MaxExamples == 3
\* cap on the number of pending setTimeout callbacks
MaxTimers == 2
\* cap on the number of pending clipboard writes
MaxCopies == 1
\* cap on the number of calls of one handler suspended at an await
MaxInFlight == 2

\* ------------------------------------------------------- values and inputs
\* JavaScript null and undefined
NULL == "<null>"
UNDEFINED == "<undefined>"
\* JavaScript truthiness of a string-or-absent value
Truthy(v) == v \notin {NULL, UNDEFINED, ""}

\* what the user can type in a text field
Texts == {"", " ", " a "}

ErrorMarker == "x "
SuccessMarker == "v "
WarningMarker == "! "

\* String.prototype.trim, restricted to the space character
RECURSIVE trimStart(_)
trimStart(s) ==
    IF Len(s) > 0 /\ SubSeq(s, 1, 1) = " " THEN trimStart(SubSeq(s, 2, Len(s))) ELSE s

RECURSIVE trimEnd(_)
trimEnd(s) ==
    IF Len(s) > 0 /\ SubSeq(s, Len(s), Len(s)) = " "
    THEN trimEnd(SubSeq(s, 1, Len(s) - 1)) ELSE s

trim(s) == trimEnd(trimStart(s))

\* String.prototype.includes
includes(s, sub) ==
    \E i \in 1..(Len(s) - Len(sub) + 1) : SubSeq(s, i, i + Len(sub) - 1) = sub

VARIABLES
    loaded,             \* DOMContentLoaded has run
    exampleCount,       \* let exampleCount
    sessionId,          \* let sessionId
    examplesContainer,  \* #examples-container: the .example-item nodes, in document order
    generateBtnDisabled,\* #generate-btn disabled
    testBtnDisabled,    \* #test-btn disabled
    loadingDiv,         \* #loading style.display
    resultsSection,     \* #results-section style.display
    testSection,        \* #test-section style.display
    statusMessage,      \* #status-message className and textContent
    pipelineCode,       \* #pipeline-code textContent
    syntheticPrompt,    \* #synthetic-prompt textContent
    downloadLinks,      \* #download-links children
    testOutput,         \* #test-output style.display
    testResult,         \* #test-result textContent
    healthStatus,       \* #health-status className and textContent
    healthCall,         \* position of checkHealth
    generateCalls,      \* the generatePipeline calls suspended at an await
    testCalls,          \* the testPipeline calls suspended at an await
    copyCalls,          \* pending navigator.clipboard.writeText calls
    timers              \* pending setTimeout callbacks, in creation order

\* The values of #task-description and #test-input are read once, by the click
\* handler: they are inputs of GenerateClick and TestClick.

listVars == <<exampleCount, examplesContainer>>
resultVars == <<pipelineCode, syntheticPrompt, downloadLinks>>
testVars == <<testOutput, testResult>>
generateVars == <<generateBtnDisabled, loadingDiv, generateCalls>>
testCallVars == <<testBtnDisabled, testCalls>>
healthVars == <<healthStatus, healthCall>>
messageVars == <<resultsSection, statusMessage, timers>>

vars == <<loaded, exampleCount, sessionId, examplesContainer, generateBtnDisabled, testBtnDisabled, loadingDiv,
          resultsSection, testSection, statusMessage, pipelineCode,
          syntheticPrompt, downloadLinks, testOutput, testResult, healthStatus,
          healthCall, generateCalls, testCalls, copyCalls, timers>>

\* ------------------------------------------------------------ example list
\* the text of span.example-number
exampleLabel(n) == "Example " \o ToString(n)

\* the node addExample builds: `Example ${exampleCount}`
newExampleNumber(container, count) == exampleLabel(count)

newExampleItemByPosition(container, count) ==
    [exampleId |-> Len(container) + 1,
     number |-> newExampleNumber(container, count),
     input |-> "",
     output |-> ""]

newExampleItem(container, count) ==
    [exampleId |-> count,
     number |-> newExampleNumber(container, count),
     input |-> "",
     output |-> ""]

renumberNone(container) == container

\* forEach((example, index) => numberSpan.textContent = `Example ${index + 1}`)
renumber(container) ==
    [i \in 1..Len(container) |-> [container[i] EXCEPT !.number = exampleLabel(i)]]

\* document.querySelector(`[data-example-id="${id}"]`): index of the first match, 0 if none
querySelectorExample(container, id) ==
    IF \E i \in 1..Len(container) : container[i].exampleId = id
    THEN CHOOSE i \in 1..Len(container) :
            /\ container[i].exampleId = id
            /\ \A j \in 1..(i - 1) : container[j].exampleId # id
    ELSE 0

removeAt(container, k) ==
    [i \in 1..(Len(container) - 1) |-> IF i < k THEN container[i] ELSE container[i + 1]]

\* the list after removeExample(id)
removeExampleResult(container, id) ==
    LET k == querySelectorExample(container, id)
    IN  renumber(IF k # 0 THEN removeAt(container, k) ELSE container)

\* addExample()
addExample ==
    /\ exampleCount' = exampleCount + 1
    /\ examplesContainer' =
          Append(examplesContainer, newExampleItem(examplesContainer, exampleCount + 1))

\* ---------------------------------------------------------------- Init
\* the page as served: controls enabled, the results and test areas hidden
InitialPage ==
    /\ examplesContainer = <<>>
    /\ generateBtnDisabled = FALSE
    /\ testBtnDisabled = FALSE
    /\ loadingDiv = "none"
    /\ resultsSection = "none"
    /\ testSection = "none"
    /\ statusMessage = [className |-> "message", textContent |-> ""]
    /\ pipelineCode = ""
    /\ syntheticPrompt = ""
    /\ downloadLinks = <<>>
    /\ testOutput = "none"
    /\ testResult = ""
    /\ healthStatus = [className |-> "health-status", textContent |-> ""]

Init ==
    /\ InitialPage
    /\ loaded = FALSE
    /\ exampleCount = 0
    /\ sessionId = NULL
    /\ healthCall = "idle"
    /\ generateCalls = <<>>
    /\ testCalls = <<>>
    /\ copyCalls = <<>>
    /\ timers = <<>>

\* document.addEventListener('DOMContentLoaded', ...)
DOMContentLoaded ==
    /\ ~loaded
    /\ loaded' = TRUE
    /\ healthCall' = "fetch"
    /\ addExample
    /\ UNCHANGED <<sessionId, resultVars, testVars, generateVars, testCallVars,
                   healthStatus, messageVars, testSection, copyCalls>>

\* click on #add-example-btn
AddExampleClick ==
    /\ loaded
    /\ exampleCount < MaxExamples
    /\ addExample
    /\ UNCHANGED <<loaded, sessionId, resultVars, testVars, generateVars,
                   testCallVars, healthVars, messageVars, testSection, copyCalls>>

\* removeExample(id)
removeExample(id) ==
    /\ examplesContainer' = removeExampleResult(examplesContainer, id)
    /\ UNCHANGED <<loaded, exampleCount, sessionId, resultVars, testVars,
                   generateVars, testCallVars, healthVars, messageVars, testSection,
                   copyCalls>>

\* click on an entry's Remove button: onclick="removeExample(id)"
RemoveExampleClick ==
    /\ loaded
    /\ \E i \in 1..Len(examplesContainer) : removeExample(examplesContainer[i].exampleId)

\* typing in the textareas of an example entry
EditExample ==
    /\ loaded
    /\ \E i \in 1..Len(examplesContainer), t \in Texts :
         \/ /\ examplesContainer[i].input # t
            /\ examplesContainer' = [examplesContainer EXCEPT ![i].input = t]
         \/ /\ examplesContainer[i].output # t
            /\ examplesContainer' = [examplesContainer EXCEPT ![i].output = t]
    /\ UNCHANGED <<loaded, exampleCount, sessionId, resultVars, testVars,
                   generateVars, testCallVars, healthVars, messageVars, testSection,
                   copyCalls>>

\* ------------------------------------------------------- status messaging
\* showError(message): the message, the results area and the 5000 ms timeout
showError(message) ==
    /\ resultsSection' = "block"
    /\ statusMessage' = [className |-> "message error",
                         textContent |-> ErrorMarker \o message]
    /\ timers' = Append(timers, [kind |-> "error"])

\* reading innerHTML of an element whose only child is a text node: the text
\* with &, < and > escaped
RECURSIVE innerHTML(_)
innerHTML(text) ==
    IF Len(text) = 0 THEN ""
    ELSE LET c == SubSeq(text, 1, 1)
         IN  (IF c = "&" THEN "&amp;"
              ELSE IF c = "<" THEN "&lt;"
              ELSE IF c = ">" THEN "&gt;"
              ELSE c) \o innerHTML(SubSeq(text, 2, Len(text)))

\* s starts with prefix
startsWith(s, prefix) ==
    Len(s) >= Len(prefix) /\ SubSeq(s, 1, Len(prefix)) = prefix

\* writing innerHTML with markup that has no tags: the text of the node it
\* makes, with the character references resolved
RECURSIVE parseHTML(_)
parseHTML(html) ==
    IF Len(html) = 0 THEN ""
    ELSE IF startsWith(html, "&amp;") THEN "&" \o parseHTML(SubSeq(html, 6, Len(html)))
    ELSE IF startsWith(html, "&lt;") THEN "<" \o parseHTML(SubSeq(html, 5, Len(html)))
    ELSE IF startsWith(html, "&gt;") THEN ">" \o parseHTML(SubSeq(html, 5, Len(html)))
    ELSE SubSeq(html, 1, 1) \o parseHTML(SubSeq(html, 2, Len(html)))

\* showSuccess(message): the message and the 3000 ms timeout that restores the old one
showSuccess(message) ==
    /\ statusMessage' = [className |-> "message success",
                         textContent |-> SuccessMarker \o message]
    /\ timers' = Append(timers, [kind |-> "success",
                                 originalContent |-> innerHTML(statusMessage.textContent),
                                 originalClass |-> statusMessage.className])
    /\ UNCHANGED resultsSection

\* a 3000 ms timeout set no later than a 5000 ms one runs before it; timeouts of
\* equal delay run in the order they were set
timerDue(i) ==
    IF timers[i].kind = "error"
    THEN i = 1
    ELSE \A j \in 1..(i - 1) : timers[j].kind # "success"

\* the callback of showError's setTimeout: the display it leaves the results area with
errorTimeoutResult(message, results) ==
    IF includes(message.className, "error") THEN "none" ELSE results

errorTimeout == resultsSection' = errorTimeoutResult(statusMessage, resultsSection)

\* the callback of showSuccess's setTimeout: the message it puts back
restoredMessage(timer) ==
    [className |-> timer.originalClass, textContent |-> parseHTML(timer.originalContent)]

successTimeout(timer) == statusMessage' = restoredMessage(timer)

\* a setTimeout callback runs
TimerFire ==
    /\ \E i \in 1..Len(timers) :
         /\ timerDue(i)
         /\ timers' = removeAt(timers, i)
         /\ IF timers[i].kind = "error"
            THEN errorTimeout /\ UNCHANGED statusMessage
            ELSE successTimeout(timers[i]) /\ UNCHANGED resultsSection
    /\ UNCHANGED <<loaded, listVars, sessionId, resultVars, testVars,
                   generateVars, testCallVars, healthVars, testSection, copyCalls>>

\* --------------------------------------------------- collect and validate
exampleInputFirst(container, id) == container[1].input

\* document.getElementById(id).value for an example textarea: the first node
\* in document order carrying that id
exampleInputById(container, id) == container[querySelectorExample(container, id)].input
exampleOutputById(container, id) == container[querySelectorExample(container, id)].output

examplePairEither(input, output) ==
    IF Truthy(input) \/ Truthy(output)
    THEN <<[input |-> input, output |-> output]>> ELSE <<>>

\* if (input && output) examples.push({ input, output })
examplePair(input, output) ==
    IF Truthy(input) /\ Truthy(output)
    THEN <<[input |-> input, output |-> output]>> ELSE <<>>

RECURSIVE collectExamples(_, _)
collectExamples(container, i) ==
    IF i > Len(container) THEN <<>>
    ELSE examplePair(trim(exampleInputById(container, container[i].exampleId)),
                     trim(exampleOutputById(container, container[i].exampleId)))
         \o collectExamples(container, i + 1)

\* values of the fields the model never edits
InputTypeValue == "text"
OutputTypeValue == "text"
OllamaModelValue == ""

collectFormData(taskDescription, container) ==
    [taskDescription |-> trim(taskDescription),
     inputType |-> InputTypeValue,
     outputType |-> OutputTypeValue,
     ollamaModel |-> IF Truthy(trim(OllamaModelValue)) THEN trim(OllamaModelValue)
                     ELSE "llama3.2",
     examples |-> collectExamples(container, 1)]

\* validateFormData(data): "" when valid, else the message it passes to showError
validationError(data) ==
    IF ~Truthy(data.taskDescription) THEN "Please provide a task description"
    ELSE IF Len(data.examples) = 0 THEN "Please provide at least one example"
    ELSE ""

validateExamplesOnly(data) == Len(data.examples) # 0

validateFormData(data) == validationError(data) = ""

\* ------------------------------------------------------ backend responses
\* a property of a parsed JSON object, undefined when the object lacks it
field(object, name) == IF name \in DOMAIN object THEN object[name] ELSE UNDEFINED

SessionIds == {"s1", "s2"}
FileLists == {<<"a.py">>, <<"b.txt", "a.py">>}

\* bodies of 2xx answers of /api/generate-pipeline, with the documented fields
GenerationResults ==
    [sessionId : SessionIds, optimizationSuccess : BOOLEAN,
     optimizationMessage : {"done"}, pipelineCode : {"code"},
     syntheticPrompt : {"prompt"}, filesGenerated : FileLists]

\* bodies of non-2xx answers: with an error field, with an empty one, without
ErrorBodies == {[error |-> "model not found"], [error |-> ""], [detail |-> "none"]}

\* bodies of 2xx answers of /api/test-pipeline
TestResults == {[output |-> "out"], [output |-> "out", note |-> "n"]}

\* error.message of a rejected fetch (it differs between browsers)
FetchFailureMessages == {"Failed to fetch", "NetworkError when attempting to fetch resource."}
\* error.message of response.json() on a body that is not JSON
JsonFailureMessage == "Unexpected token < in JSON at position 0"

\* ------------------------------------------------------------- generation
\* throw new Error(result.error || 'Failed to generate pipeline')
generateErrorMessage(result) ==
    IF Truthy(field(result, "error")) THEN field(result, "error")
    ELSE "Failed to generate pipeline"

\* displayResults: the status message
resultStatus(result) ==
    IF result.optimizationSuccess
    THEN [className |-> "message success",
          textContent |-> SuccessMarker \o result.optimizationMessage]
    ELSE [className |-> "message warning",
          textContent |-> WarningMarker \o result.optimizationMessage]

resultTestSectionShowOnly(old, result) ==
    IF result.optimizationSuccess THEN "block" ELSE old

\* displayResults: the display of #test-section
resultTestSection(old, result) ==
    IF result.optimizationSuccess THEN "block" ELSE "none"

\* displayResults: one <a> per filename (its text is the download pictogram,
\* "Download" and the filename)
downloadLink(filename) ==
    [href |-> "/api/download/" \o filename,
     className |-> "download-link",
     textContent |-> "Download " \o filename,
     download |-> filename]

renderLinksAppend(old, files) ==
    old \o [i \in 1..Len(files) |-> downloadLink(files[i])]

\* downloadLinks.innerHTML = '' and one appendChild per filename
renderLinks(old, files) == [i \in 1..Len(files) |-> downloadLink(files[i])]

\* displayResults(result)
displayResults(result) ==
    /\ resultsSection' = "block"
    /\ statusMessage' = resultStatus(result)
    /\ testSection' = resultTestSection(testSection, result)
    /\ pipelineCode' = result.pipelineCode
    /\ syntheticPrompt' = result.syntheticPrompt
    /\ downloadLinks' = renderLinks(downloadLinks, result.filesGenerated)

otherThanGenerate == <<loaded, listVars, testVars, testCallVars, healthVars, copyCalls>>

generateBusyEnabled ==
    /\ generateBtnDisabled' = generateBtnDisabled
    /\ loadingDiv' = "block"
    /\ resultsSection' = "none"

\* generateBtn.disabled = true; loading shown; results hidden
generateBusy ==
    /\ generateBtnDisabled' = TRUE
    /\ loadingDiv' = "block"
    /\ resultsSection' = "none"

\* generatePipeline from the click to its first await, with the description typed
generateStart(taskDescription) ==
    LET data == collectFormData(taskDescription, examplesContainer)
    IN  /\ IF ~validateFormData(data)
           THEN /\ Len(timers) < MaxTimers
                /\ showError(validationError(data))
                /\ UNCHANGED generateVars
           ELSE /\ Len(generateCalls) < MaxInFlight
                /\ generateBusy
                /\ generateCalls' = Append(generateCalls, [phase |-> "fetch", body |-> data])
                /\ UNCHANGED <<statusMessage, timers>>
        /\ UNCHANGED <<otherThanGenerate, sessionId, resultVars, testSection>>

\* click on #generate-btn (a disabled button receives no click)
GenerateClick ==
    /\ loaded
    /\ ~generateBtnDisabled
    /\ \E taskDescription \in Texts : generateStart(taskDescription)

\* finally { generateBtn.disabled = false; loadingDiv.style.display = 'none' }
generateFinally(i) ==
    /\ generateBtnDisabled' = FALSE
    /\ loadingDiv' = "none"
    /\ generateCalls' = removeAt(generateCalls, i)

generateCatchNoFinally(i, message) ==
    /\ Len(timers) < MaxTimers
    /\ showError(message)
    /\ generateCalls' = removeAt(generateCalls, i)
    /\ UNCHANGED <<generateBtnDisabled, loadingDiv>>
    /\ UNCHANGED <<otherThanGenerate, sessionId, resultVars, testSection>>

generateCatchHidesTestSection(i, message) ==
    /\ Len(timers) < MaxTimers
    /\ showError(message)
    /\ generateFinally(i)
    /\ testSection' = "none"
    /\ UNCHANGED <<otherThanGenerate, sessionId, resultVars>>

\* catch (error) { showError(error.message) } and the finally block
generateCatch(i, message) ==
    /\ Len(timers) < MaxTimers
    /\ showError(message)
    /\ generateFinally(i)
    /\ UNCHANGED <<otherThanGenerate, sessionId, resultVars, testSection>>

\* the fetch of call i rejects
generateFetchRejected(i, message) ==
    /\ generateCalls[i].phase = "fetch"
    /\ generateCatch(i, message)

\* the fetch of call i resolves with a response, 2xx or not
generateFetchResolved(i, ok) ==
    /\ generateCalls[i].phase = "fetch"
    /\ generateCalls' = [generateCalls EXCEPT ![i] = [phase |-> "json", ok |-> ok]]
    /\ UNCHANGED <<otherThanGenerate, sessionId, resultVars, testSection,
                   generateBtnDisabled, loadingDiv, messageVars>>

\* response.json() of call i rejects: the body is not JSON
generateJsonRejected(i) ==
    /\ generateCalls[i].phase = "json"
    /\ generateCatch(i, JsonFailureMessage)

\* response.json() of call i resolves on a non-2xx response
generateErrorResponse(i, result) ==
    /\ generateCalls[i].phase = "json"
    /\ ~generateCalls[i].ok
    /\ generateCatch(i, generateErrorMessage(result))

generateSuccessKeepsFirstSession(i, result) ==
    /\ generateCalls[i].phase = "json"
    /\ generateCalls[i].ok
    /\ sessionId' = IF sessionId = NULL THEN result.sessionId ELSE sessionId
    /\ displayResults(result)
    /\ generateFinally(i)
    /\ UNCHANGED <<otherThanGenerate, timers>>

\* response.json() of call i resolves on a 2xx response
generateSuccessResponse(i, result) ==
    /\ generateCalls[i].phase = "json"
    /\ generateCalls[i].ok
    /\ sessionId' = result.sessionId
    /\ displayResults(result)
    /\ generateFinally(i)
    /\ UNCHANGED <<otherThanGenerate, timers>>

GenerateFetchSettle ==
    \E i \in 1..Len(generateCalls) :
       \/ \E message \in FetchFailureMessages : generateFetchRejected(i, message)
       \/ \E ok \in BOOLEAN : generateFetchResolved(i, ok)

GenerateJsonSettle ==
    \E i \in 1..Len(generateCalls) :
       \/ generateJsonRejected(i)
       \/ \E result \in ErrorBodies : generateErrorResponse(i, result)
       \/ \E result \in GenerationResults : generateSuccessResponse(i, result)

\* ------------------------------------------------------------------- test
\* throw new Error(result.error || 'Failed to test pipeline')
testErrorMessage(result) ==
    IF Truthy(field(result, "error")) THEN field(result, "error")
    ELSE "Failed to test pipeline"

testInputOnlyError(testInput, session) ==
    IF ~Truthy(testInput) THEN "Please provide test input" ELSE ""

\* the two guards of testPipeline: "" when both pass, else the message shown
testPreconditionError(testInput, session) ==
    IF ~Truthy(testInput) THEN "Please provide test input"
    ELSE IF ~Truthy(session) THEN "No pipeline session found"
    ELSE ""

\* testResult.textContent
testResultText(result) ==
    IF Truthy(field(result, "note"))
    THEN result.output \o "\n\nNote: " \o result.note
    ELSE result.output

otherThanTest == <<loaded, listVars, sessionId, resultVars, generateVars, healthVars,
                   testSection, copyCalls>>

\* testPipeline from the click to its first await, with the test input typed
testStart(testInputValue) ==
    LET testInput == trim(testInputValue)
    IN  /\ IF testPreconditionError(testInput, sessionId) # ""
           THEN /\ Len(timers) < MaxTimers
                /\ showError(testPreconditionError(testInput, sessionId))
                /\ UNCHANGED testCallVars
           ELSE /\ Len(testCalls) < MaxInFlight
                /\ testBtnDisabled' = TRUE
                /\ testCalls' = Append(testCalls,
                       [phase |-> "fetch",
                        body |-> [sessionId |-> sessionId, testInput |-> testInput]])
                /\ UNCHANGED messageVars
        /\ UNCHANGED <<otherThanTest, testVars>>

\* click on #test-btn (a disabled button receives no click)
TestClick ==
    /\ loaded
    /\ ~testBtnDisabled
    /\ \E testInputValue \in Texts : testStart(testInputValue)

testFinallyAfterGenerate(i) ==
    /\ generateCalls = <<>>
    /\ testBtnDisabled' = FALSE
    /\ testCalls' = removeAt(testCalls, i)

\* finally { testBtn.disabled = false }
testFinally(i) ==
    /\ testBtnDisabled' = FALSE
    /\ testCalls' = removeAt(testCalls, i)

\* catch (error) { showError(error.message) } and the finally block
testCatch(i, message) ==
    /\ Len(timers) < MaxTimers
    /\ showError(message)
    /\ testFinally(i)
    /\ UNCHANGED <<otherThanTest, testVars>>

testFetchRejected(i, message) ==
    /\ testCalls[i].phase = "fetch"
    /\ testCatch(i, message)

testFetchResolved(i, ok) ==
    /\ testCalls[i].phase = "fetch"
    /\ testCalls' = [testCalls EXCEPT ![i] = [phase |-> "json", ok |-> ok]]
    /\ UNCHANGED <<otherThanTest, testVars, testBtnDisabled, messageVars>>

testJsonRejected(i) ==
    /\ testCalls[i].phase = "json"
    /\ testCatch(i, JsonFailureMessage)

testErrorResponse(i, result) ==
    /\ testCalls[i].phase = "json"
    /\ ~testCalls[i].ok
    /\ testCatch(i, testErrorMessage(result))

testSuccessResponse(i, result) ==
    /\ testCalls[i].phase = "json"
    /\ testCalls[i].ok
    /\ testOutput' = "block"
    /\ testResult' = testResultText(result)
    /\ testFinally(i)
    /\ UNCHANGED <<otherThanTest, messageVars>>

TestFetchSettle ==
    \E i \in 1..Len(testCalls) :
       \/ \E message \in FetchFailureMessages : testFetchRejected(i, message)
       \/ \E ok \in BOOLEAN : testFetchResolved(i, ok)

TestJsonSettle ==
    \E i \in 1..Len(testCalls) :
       \/ testJsonRejected(i)
       \/ \E result \in ErrorBodies : testErrorResponse(i, result)
       \/ \E result \in TestResults : testSuccessResponse(i, result)

\* ----------------------------------------------------------------- health
HealthData == [status : {"healthy", "unhealthy"}, ollama : {"running", "stopped"}]

healthIndicatorStatusOnly(data) ==
    IF data.status = "healthy"
    THEN [className |-> "health-status healthy", textContent |-> "v Ollama is running"]
    ELSE [className |-> "health-status unhealthy",
          textContent |-> "! Ollama is not running - Run: ollama serve"]

\* checkHealth: the indicator for a parsed answer
healthIndicator(data) ==
    IF data.status = "healthy" /\ data.ollama = "running"
    THEN [className |-> "health-status healthy", textContent |-> "v Ollama is running"]
    ELSE [className |-> "health-status unhealthy",
          textContent |-> "! Ollama is not running - Run: ollama serve"]

\* checkHealth: the indicator of the catch block
healthUnreachable ==
    [className |-> "health-status unhealthy", textContent |-> "x Cannot connect to backend"]

otherThanHealth == <<loaded, listVars, sessionId, resultVars, testVars, generateVars,
                     testCallVars, messageVars, testSection, copyCalls>>

\* checkHealth: catch (error), after a rejected fetch or a rejected response.json()
healthCatch ==
    /\ healthCall \in {"fetch", "json"}
    /\ healthCall' = "done"
    /\ healthStatus' = healthUnreachable
    /\ UNCHANGED otherThanHealth

\* checkHealth: response.json() resolves with data
healthResponse(data) ==
    /\ healthCall = "json"
    /\ healthCall' = "done"
    /\ healthStatus' = healthIndicator(data)
    /\ UNCHANGED otherThanHealth

\* the fetch of checkHealth settles
HealthFetchSettle ==
    /\ healthCall = "fetch"
    /\ \/ healthCatch
       \/ /\ healthCall' = "json"
          /\ UNCHANGED healthStatus
          /\ UNCHANGED otherThanHealth

\* response.json() of checkHealth settles
HealthJsonSettle ==
    /\ healthCall = "json"
    /\ \/ healthCatch
       \/ \E data \in HealthData : healthResponse(data)

\* ------------------------------------------------------------------- copy
otherThanCopy == <<loaded, listVars, sessionId, resultVars, testVars, generateVars,
                   testCallVars, healthVars, testSection>>

\* click on #copy-code-btn or #copy-synthetic-btn: copyToClipboard up to its await
CopyClick ==
    /\ loaded
    /\ Len(copyCalls) < MaxCopies
    /\ \E text \in {pipelineCode, syntheticPrompt} : copyCalls' = Append(copyCalls, text)
    /\ UNCHANGED <<otherThanCopy, messageVars>>

\* navigator.clipboard.writeText settles
CopySettle ==
    /\ Len(timers) < MaxTimers
    /\ \E i \in 1..Len(copyCalls) :
         /\ copyCalls' = removeAt(copyCalls, i)
         /\ \/ showSuccess("Copied to clipboard!")
            \/ showError("Failed to copy to clipboard")
    /\ UNCHANGED otherThanCopy

\* ------------------------------------------------------------------- Next
Next ==
    \/ DOMContentLoaded
    \/ AddExampleClick
    \/ RemoveExampleClick
    \/ EditExample
    \/ TimerFire
    \/ GenerateClick
    \/ GenerateFetchSettle
    \/ GenerateJsonSettle
    \/ TestClick
    \/ TestFetchSettle
    \/ TestJsonSettle
    \/ HealthFetchSettle
    \/ HealthJsonSettle
    \/ CopyClick
    \/ CopySettle

Spec == Init /\ [][Next]_vars

\* the example list on its own
NextList ==
    \/ DOMContentLoaded
    \/ AddExampleClick
    \/ RemoveExampleClick
    \/ EditExample

SpecList == Init /\ [][NextList]_vars

\* the example list when every add comes before the first remove
AddBeforeRemove ==
    /\ Len(examplesContainer) = exampleCount
    /\ AddExampleClick

NextAddThenRemove ==
    \/ DOMContentLoaded
    \/ AddBeforeRemove
    \/ RemoveExampleClick
    \/ EditExample

SpecAddThenRemove == Init /\ [][NextAddThenRemove]_vars

\* the example list and the generate control
NextForm ==
    \/ DOMContentLoaded
    \/ AddExampleClick
    \/ RemoveExampleClick
    \/ EditExample
    \/ GenerateClick

SpecForm == Init /\ [][NextForm]_vars

\* the generation and test round trips
NextRequests ==
    \/ DOMContentLoaded
    \/ EditExample
    \/ GenerateClick
    \/ GenerateFetchSettle
    \/ GenerateJsonSettle
    \/ TestClick
    \/ TestFetchSettle
    \/ TestJsonSettle
    \/ TimerFire

SpecRequests == Init /\ [][NextRequests]_vars

\* the health check next to the generate control
NextHealth ==
    \/ DOMContentLoaded
    \/ EditExample
    \/ GenerateClick
    \/ GenerateFetchSettle
    \/ HealthFetchSettle
    \/ HealthJsonSettle

SpecHealth == Init /\ [][NextHealth]_vars

\* status messages: generation results, errors, clipboard copies and their timeouts
NextMessages ==
    \/ DOMContentLoaded
    \/ EditExample
    \/ GenerateClick
    \/ GenerateFetchSettle
    \/ GenerateJsonSettle
    \/ CopyClick
    \/ CopySettle
    \/ TimerFire

SpecMessages == Init /\ [][NextMessages]_vars

\* ================================================================ claims
\* an error message is on display
errorShown(message, results) ==
    /\ results = "block"
    /\ includes(message.className, "error")
    /\ Len(message.textContent) > Len(ErrorMarker)
    /\ SubSeq(message.textContent, 1, Len(ErrorMarker)) = ErrorMarker

\* a click on the generate control, with the description typed
generateClicked(taskDescription) ==
    /\ loaded /\ ~generateBtnDisabled
    /\ UNCHANGED <<listVars, sessionId>>
    /\ generateStart(taskDescription)

\* a click on the test control, with the test input typed
testClicked(testInputValue) ==
    /\ loaded /\ ~testBtnDisabled
    /\ UNCHANGED <<listVars, sessionId>>
    /\ testStart(testInputValue)

\* C1: a click on the generate control while the task description is empty after
\* trimming sends no generation request, shows an error message and leaves the
\* generate control enabled.
C1_EmptyDescriptionNotSent ==
    [][\A taskDescription \in Texts :
          (generateClicked(taskDescription) /\ trim(taskDescription) = "")
          => /\ generateCalls' = generateCalls
             /\ errorShown(statusMessage', resultsSection')
             /\ ~generateBtnDisabled']_vars

C1_Witness ==
    /\ statusMessage.textContent = ErrorMarker \o "Please provide a task description"
    /\ resultsSection = "block"
    /\ generateCalls = <<>>
    /\ ~generateBtnDisabled
    /\ \E i \in 1..Len(examplesContainer) :
          trim(examplesContainer[i].input) # "" /\ trim(examplesContainer[i].output) # ""

\* no example entry has both a non-empty input and a non-empty expected output
noCompleteExample(container) ==
    \A i \in 1..Len(container) :
       trim(container[i].input) = "" \/ trim(container[i].output) = ""

\* C2: a click on the generate control while no example entry has both fields
\* non-empty after trimming (zero entries included) sends no generation request
\* and shows an error message.
C2_NoCompleteExampleNotSent ==
    [][\A taskDescription \in Texts :
          (generateClicked(taskDescription) /\ noCompleteExample(examplesContainer))
          => /\ generateCalls' = generateCalls
             /\ errorShown(statusMessage', resultsSection')]_vars

C2_Witness ==
    /\ statusMessage.textContent = ErrorMarker \o "Please provide at least one example"
    /\ resultsSection = "block"
    /\ generateCalls = <<>>
    /\ \E i \in 1..Len(examplesContainer) :
          examplesContainer[i].input = " " /\ examplesContainer[i].output = " a "

\* C3: a click on the test control sends a test request only if the trimmed test
\* input is non-empty and a session identifier of an earlier successful
\* generation is stored; when either is missing it sends nothing, shows an error
\* and leaves the test control enabled.
C3_TestNeedsInputAndSession ==
    [][\A testInputValue \in Texts :
          testClicked(testInputValue)
          => IF trim(testInputValue) # "" /\ sessionId \in SessionIds
             THEN testCalls' # testCalls
             ELSE /\ testCalls' = testCalls
                  /\ errorShown(statusMessage', resultsSection')
                  /\ ~testBtnDisabled']_vars

C3_Witness ==
    /\ statusMessage.textContent = ErrorMarker \o "No pipeline session found"
    /\ resultsSection = "block"
    /\ sessionId = NULL
    /\ testCalls = <<>>
    /\ ~testBtnDisabled

\* C4: at most one generation request and at most one test request are in
\* flight, and a control is disabled for as long as its request is in flight.
C4_OneRequestPerControl ==
    /\ Len(generateCalls) <= 1
    /\ Len(testCalls) <= 1
    /\ generateCalls # <<>> => generateBtnDisabled
    /\ testCalls # <<>> => testBtnDisabled

C4_Witness ==
    /\ Len(generateCalls) = 1
    /\ Len(testCalls) = 1
    /\ generateBtnDisabled
    /\ testBtnDisabled

\* C5: when a generation or test call ends, whatever its outcome, its control is
\* enabled again; a control is disabled only while its own call has not ended.
C5_ControlEnabledAfterSettle ==
    [][/\ Len(generateCalls') < Len(generateCalls) => ~generateBtnDisabled'
       /\ Len(testCalls') < Len(testCalls) => ~testBtnDisabled'
       /\ generateBtnDisabled' => generateCalls' # <<>>
       /\ testBtnDisabled' => testCalls' # <<>>]_vars

C5_Witness ==
    /\ statusMessage.textContent = ErrorMarker \o JsonFailureMessage
    /\ generateCalls = <<>>
    /\ ~generateBtnDisabled
    /\ testCalls # <<>>
    /\ testBtnDisabled

\* the displayed labels are Example 1, Example 2, ... in display order
labelsContiguous(container) ==
    \A i \in 1..Len(container) : container[i].number = exampleLabel(i)

\* C6: from an empty list, N adds followed by K removes of distinct present
\* entries leave N-K entries (every add makes one more, every remove one fewer)
\* whose labels, in display order, are Example 1 .. Example N-K.
C6_AddsThenRemovesContiguous ==
    /\ [](labelsContiguous(examplesContainer) /\ Len(examplesContainer) <= exampleCount)
    /\ [][/\ exampleCount' = exampleCount + 1
             => Len(examplesContainer') = Len(examplesContainer) + 1
          /\ \A i \in 1..Len(examplesContainer) :
                removeExample(examplesContainer[i].exampleId)
                => Len(examplesContainer') = Len(examplesContainer) - 1]_vars

C6_Witness ==
    /\ exampleCount = 3
    /\ Len(examplesContainer) = 1
    /\ examplesContainer[1].exampleId = 3
    /\ examplesContainer[1].number = exampleLabel(1)

\* C7: the add operation labels the new entry by its 1-based position in the
\* list, so that the labels stay Example 1 .. Example n under any interleaving
\* of adds and removes.
C7_AddLabelsByPosition ==
    [][exampleCount' = exampleCount + 1
       => /\ examplesContainer'[Len(examplesContainer')].number
                = exampleLabel(Len(examplesContainer'))
          /\ labelsContiguous(examplesContainer')]_vars

\* C8: rendering a 2xx generation response leaves the test section visible when
\* optimizationSuccess is true and hidden when it is false, whatever it was
\* before, with a success-styled message in the first case and a warning-styled
\* one in the second.
C8_TestSectionFollowsOptimization ==
    [][\A i \in 1..Len(generateCalls) : \A result \in GenerationResults :
          generateSuccessResponse(i, result)
          => IF result.optimizationSuccess
             THEN testSection' = "block" /\ statusMessage'.className = "message success"
             ELSE testSection' = "none" /\ statusMessage'.className = "message warning"]_vars

C8_Witness ==
    /\ testSection = "none"
    /\ statusMessage.className = "message warning"
    /\ resultsSection = "block"
    /\ \E i \in 1..Len(testCalls) :
          testCalls[i].phase = "fetch" /\ testCalls[i].body.sessionId # sessionId

\* C9: after a 2xx generation response is rendered the download area holds one
\* link per entry of its filesGenerated, in order, each pointing to
\* /api/download/<filename>, and no link of an earlier generation.
C9_OneLinkPerFile ==
    [][\A i \in 1..Len(generateCalls) : \A result \in GenerationResults :
          generateSuccessResponse(i, result)
          => /\ Len(downloadLinks') = Len(result.filesGenerated)
             /\ \A k \in 1..Len(result.filesGenerated) :
                   downloadLinks'[k].href = "/api/download/" \o result.filesGenerated[k]]_vars

C9_Witness ==
    /\ Len(downloadLinks) = 1
    /\ downloadLinks[1].href = "/api/download/a.py"
    /\ sessionId = "s2"
    /\ \E i \in 1..Len(testCalls) :
          testCalls[i].phase = "fetch" /\ testCalls[i].body.sessionId = "s1"

\* the text an error answer must produce: the marker and the body's error field,
\* or the marker and the generic message when the body has none
expectedErrorText(body, generic) ==
    ErrorMarker \o (IF Truthy(field(body, "error")) THEN body.error ELSE generic)

\* C10: a non-2xx answer of the generation or test endpoint shows the error
\* marker followed by the body's error field, or by the generic failure message
\* when the body carries none; nothing is rendered and the stored session
\* identifier is kept.
C10_ErrorFieldOrGeneric ==
    [][/\ \A i \in 1..Len(generateCalls) :
             /\ \A body \in ErrorBodies :
                   generateErrorResponse(i, body)
                   => statusMessage'.textContent
                         = expectedErrorText(body, "Failed to generate pipeline")
             /\ (generateJsonRejected(i) /\ ~generateCalls[i].ok)
                   => statusMessage'.textContent
                         = ErrorMarker \o "Failed to generate pipeline"
             /\ (generateCalls[i].phase = "json" /\ ~generateCalls[i].ok
                    /\ Len(generateCalls') < Len(generateCalls))
                   => UNCHANGED <<sessionId, resultVars, testSection>>
       /\ \A i \in 1..Len(testCalls) :
             /\ \A body \in ErrorBodies :
                   testErrorResponse(i, body)
                   => statusMessage'.textContent
                         = expectedErrorText(body, "Failed to test pipeline")
             /\ (testJsonRejected(i) /\ ~testCalls[i].ok)
                   => statusMessage'.textContent = ErrorMarker \o "Failed to test pipeline"
             /\ (testCalls[i].phase = "json" /\ ~testCalls[i].ok
                    /\ Len(testCalls') < Len(testCalls))
                   => UNCHANGED <<sessionId, testVars>>]_vars

\* the message of the catch block of checkHealth, the program's "cannot connect" text
CannotConnectMessage == "Cannot connect to backend"

\* the texts a backend-reported failure of either endpoint can show
backendReportedTexts ==
    {expectedErrorText(body, "Failed to generate pipeline") : body \in ErrorBodies}
    \cup {expectedErrorText(body, "Failed to test pipeline") : body \in ErrorBodies}

\* C11: when the fetch of a generation or test request fails, the error shown is
\* the fixed cannot-connect message, whatever the failure's own message, and it
\* is none of the texts shown for a backend-reported failure.
C11_UnreachableGenericMessage ==
    [][/\ \A i \in 1..Len(generateCalls) : \A message \in FetchFailureMessages :
             generateFetchRejected(i, message)
             => /\ statusMessage'.textContent = ErrorMarker \o CannotConnectMessage
                /\ statusMessage'.textContent \notin backendReportedTexts
       /\ \A i \in 1..Len(testCalls) : \A message \in FetchFailureMessages :
             testFetchRejected(i, message)
             => /\ statusMessage'.textContent = ErrorMarker \o CannotConnectMessage
                /\ statusMessage'.textContent \notin backendReportedTexts]_vars

\* the positive indicator: the healthy class and a text containing "running"
healthPositive(indicator) ==
    /\ indicator.className = "health-status healthy"
    /\ includes(indicator.textContent, "running")

\* the negative indicator
healthNegative(indicator) == indicator.className = "health-status unhealthy"

\* the guidance to start the runtime
healthGuidance(indicator) == includes(indicator.textContent, "Run: ollama serve")

\* C12: a health response shows the positive indicator, with a text containing
\* "running", exactly when its status is "healthy" and its ollama is "running",
\* and the negative indicator with the guidance to start the runtime otherwise;
\* a failed health request shows the negative indicator with the cannot-connect
\* message, which is not the guidance; no step of the health check changes the
\* enabled state of the generate control.
C12_HealthIndicator ==
    [][/\ \A data \in HealthData :
             healthResponse(data)
             => IF data.status = "healthy" /\ data.ollama = "running"
                THEN healthPositive(healthStatus') /\ ~healthNegative(healthStatus')
                ELSE /\ healthNegative(healthStatus') /\ ~healthPositive(healthStatus')
                     /\ healthGuidance(healthStatus')
       /\ healthCatch
             => /\ healthNegative(healthStatus') /\ ~healthPositive(healthStatus')
                /\ healthStatus'.textContent = ErrorMarker \o CannotConnectMessage
                /\ ~healthGuidance(healthStatus')
       /\ (healthCall' # healthCall /\ loaded) => UNCHANGED generateBtnDisabled]_vars

C12_Witness ==
    /\ healthCall = "done"
    /\ healthNegative(healthStatus)
    /\ healthGuidance(healthStatus)
    /\ generateBtnDisabled
    /\ generateCalls # <<>>

\* the entries on display whose two fields are non-empty after trimming
completeEntries(container) ==
    SelectSeq(container, LAMBDA e : trim(e.input) # "" /\ trim(e.output) # "")

\* their trimmed values, in display order
expectedExamples(container) ==
    [i \in 1..Len(completeEntries(container)) |->
        [input |-> trim(completeEntries(container)[i].input),
         output |-> trim(completeEntries(container)[i].output)]]

\* C13: a click on the generate control that passes validation sends exactly one
\* generation request, whose examples are the trimmed values of the entries on
\* display that have both fields non-empty after trimming, in display order:
\* an entry with an empty field and a removed entry are not in it.
C13_PayloadIsPresentCompleteExamples ==
    [][\A taskDescription \in Texts :
          (/\ generateClicked(taskDescription)
           /\ trim(taskDescription) # ""
           /\ ~noCompleteExample(examplesContainer))
          => /\ Len(generateCalls') = Len(generateCalls) + 1
             /\ generateCalls'[Len(generateCalls')].phase = "fetch"
             /\ generateCalls'[Len(generateCalls')].body.taskDescription
                   = trim(taskDescription)
             /\ generateCalls'[Len(generateCalls')].body.examples
                   = expectedExamples(examplesContainer)]_vars

C13_Witness ==
    /\ Len(generateCalls) = 1
    /\ generateCalls[1].body.examples = <<[input |-> "a", output |-> "a"]>>
    /\ exampleCount = 3
    /\ Len(examplesContainer) = 2
    /\ examplesContainer[1].exampleId = 2
    /\ examplesContainer[1].input = " "
    /\ examplesContainer[2].input = " a "
    /\ examplesContainer[2].output = " a "

\* showError ran in this step: its timeout is the newest pending one
errorStep ==
    /\ Len(timers') = Len(timers) + 1
    /\ timers'[Len(timers')].kind = "error"

\* a pending delay elapses in this step
delayElapses == Len(timers') < Len(timers)

\* generated results are on display
resultsOnDisplay(results, code) == results = "block" /\ code # ""

\* C14: a step that shows an error changes nothing but the status message and
\* the busy indicator of the action that failed, and neither does any delay that
\* elapses afterwards: generated results on display stay on display, and the
\* rendered results, the test section, the stored session identifier, the
\* example list and the control of the other action are unchanged.
C14_ErrorsLeaveRestUntouched ==
    [][/\ errorStep
          => /\ UNCHANGED <<sessionId, listVars, testSection, resultVars, testVars>>
             /\ resultsOnDisplay(resultsSection, pipelineCode)
                   => resultsOnDisplay(resultsSection', pipelineCode')
             /\ generateCalls' = generateCalls => UNCHANGED <<generateBtnDisabled, loadingDiv>>
             /\ testCalls' = testCalls => UNCHANGED testBtnDisabled
       /\ delayElapses
          => /\ UNCHANGED <<sessionId, listVars, testSection, resultVars, testVars,
                            generateBtnDisabled, loadingDiv, testBtnDisabled>>
             /\ resultsOnDisplay(resultsSection, pipelineCode)
                   => resultsOnDisplay(resultsSection', pipelineCode')]_vars

\* a message is displayed in this step: by showError or showSuccess (a new
\* timeout is pending) or by displayResults (a generation call ends without one)
messageDisplayed ==
    \/ Len(timers') = Len(timers) + 1
    \/ Len(generateCalls') < Len(generateCalls) /\ Len(timers') = Len(timers)

\* the timeout of an earlier error is pending
olderErrorPending == \E j \in 1..Len(timers) : timers[j].kind = "error"

\* C15: the delay of an error hides the results area only while the status
\* message shows an error, and a message displayed while the delay of an earlier
\* error is pending (a result, a copy confirmation or a later error) is one that
\* the earlier delay, when it elapses, does not hide.
C15_OlderDelaySparesNewerMessage ==
    [][/\ (delayElapses /\ resultsSection = "block" /\ resultsSection' = "none")
          => includes(statusMessage.className, "error")
       /\ (messageDisplayed /\ olderErrorPending)
          => errorTimeoutResult(statusMessage', resultsSection') = resultsSection']_vars

\* the text of the clipboard-copy confirmation
CopyConfirmation == SuccessMarker \o "Copied to clipboard!"

\* showSuccess ran in this step: its timeout is the newest pending one
successStep ==
    /\ Len(timers') = Len(timers) + 1
    /\ timers'[Len(timers')].kind = "success"

\* the timeout of a confirmation runs in this step
successTimeoutRuns ==
    \E i \in 1..Len(timers) :
       /\ timers[i].kind = "success"
       /\ timerDue(i)
       /\ timers' = removeAt(timers, i)
       /\ successTimeout(timers[i])

\* C16: the timeout of a copy confirmation puts back the content and styling of
\* the message the confirmation replaced; it does not replace a message shown
\* after the confirmation (an error or a generation result) by that older one;
\* and when no delay is pending the status message is not a copy confirmation.
C16_ConfirmationIsTransient ==
    /\ [](timers = <<>> => statusMessage.textContent # CopyConfirmation)
    /\ [][/\ successStep => restoredMessage(timers'[Len(timers')]) = statusMessage
          /\ (successTimeoutRuns /\ statusMessage.textContent # CopyConfirmation)
                => UNCHANGED statusMessage]_vars

\* C17: the stored session identifier is absent until a generation has
\* succeeded; a successful generation response overwrites it with its own
\* sessionId and no other step changes it (a failed generation, a validation
\* failure, a test request or its response); a test request carries the
\* identifier stored when the test control was clicked.
C17_SessionIsLatestSuccess ==
    /\ [](pipelineCode = "" => sessionId = NULL)
    /\ [][/\ \A i \in 1..Len(generateCalls) : \A result \in GenerationResults :
                generateSuccessResponse(i, result) => sessionId' = result.sessionId
          /\ sessionId' # sessionId
                => \E i \in 1..Len(generateCalls) :
                      /\ generateCalls[i].phase = "json" /\ generateCalls[i].ok
                      /\ Len(generateCalls') < Len(generateCalls)
                      /\ Len(timers') = Len(timers)
          /\ \A testInputValue \in Texts :
                (testClicked(testInputValue) /\ testCalls' # testCalls)
                => testCalls'[Len(testCalls')].body.sessionId = sessionId]_vars

C17_Witness ==
    /\ sessionId = "s1"
    /\ pipelineCode # ""
    /\ statusMessage.textContent = ErrorMarker \o "model not found"
    /\ generateCalls = <<>>
    /\ \E i \in 1..Len(testCalls) :
          testCalls[i].phase = "json" /\ testBtnDisabled

\* the next step of generation call i can be taken (an error needs a free timeout)
generateCanProceed(i) ==
    IF generateCalls[i].phase = "fetch" THEN ENABLED generateFetchResolved(i, TRUE)
    ELSE IF generateCalls[i].ok
    THEN ENABLED (\E result \in GenerationResults : generateSuccessResponse(i, result))
    ELSE Len(timers) < MaxTimers
         => ENABLED (\E result \in ErrorBodies : generateErrorResponse(i, result))

\* the next step of test call i can be taken (an error needs a free timeout)
testCanProceed(i) ==
    IF testCalls[i].phase = "fetch" THEN ENABLED testFetchResolved(i, TRUE)
    ELSE IF testCalls[i].ok
    THEN ENABLED (\E result \in TestResults : testSuccessResponse(i, result))
    ELSE Len(timers) < MaxTimers
         => ENABLED (\E result \in ErrorBodies : testErrorResponse(i, result))

\* C18: a generation call and a test call can be in flight together; while they
\* are, each can take its next step whatever the other does, a step of one
\* leaves the control and the calls of the other as they are, and a call that
\* ends while the other is in flight enables its own control again.
C18_CallSitesIndependent ==
    /\ []((generateCalls # <<>> /\ testCalls # <<>>)
          => /\ \A i \in 1..Len(generateCalls) : generateCanProceed(i)
             /\ \A i \in 1..Len(testCalls) : testCanProceed(i))
    /\ [][/\ generateCalls' # generateCalls => UNCHANGED <<testBtnDisabled, testCalls>>
          /\ testCalls' # testCalls
                => UNCHANGED <<generateBtnDisabled, loadingDiv, generateCalls>>
          /\ (Len(generateCalls') < Len(generateCalls) /\ testCalls # <<>>)
                => ~generateBtnDisabled' /\ testBtnDisabled'
          /\ (Len(testCalls') < Len(testCalls) /\ generateCalls # <<>>)
                => ~testBtnDisabled' /\ generateBtnDisabled']_vars

C18_Witness ==
    /\ Len(generateCalls) = 1
    /\ Len(testCalls) = 1
    /\ generateCalls[1].phase = "json"
    /\ testCalls[1].phase = "json"
    /\ loadingDiv = "block"
    /\ resultsSection = "none"

\* what an entry holds besides its label: identifier, input and expected output
entryData(e) == <<e.exampleId, e.input, e.output>>

\* the identifier is the one of an entry on display
present(container, id) == \E i \in 1..Len(container) : container[i].exampleId = id

\* C19: the entries on display have pairwise distinct identifiers, none above
\* the counter; the counter never decreases and an added entry gets an
\* identifier above every one assigned before, the other entries staying as
\* they are; removing an identifier on display deletes that entry alone, the
\* others keeping their identifier, input, expected output and order; removing
\* an identifier not on display deletes nothing and changes no entry's data.
C19_RemoveDeletesExactlyOne ==
    /\ [](/\ \A i, j \in 1..Len(examplesContainer) :
                examplesContainer[i].exampleId = examplesContainer[j].exampleId => i = j
          /\ \A i \in 1..Len(examplesContainer) :
                examplesContainer[i].exampleId \in 1..exampleCount
          /\ \A id \in 1..(exampleCount + 1) :
                ~present(examplesContainer, id)
                => LET after == removeExampleResult(examplesContainer, id)
                   IN  /\ Len(after) = Len(examplesContainer)
                       /\ \A i \in 1..Len(after) :
                             entryData(after[i]) = entryData(examplesContainer[i]))
    /\ [][/\ exampleCount' >= exampleCount
          /\ exampleCount' # exampleCount
                => /\ Len(examplesContainer') = Len(examplesContainer) + 1
                   /\ examplesContainer'[Len(examplesContainer')].exampleId > exampleCount
                   /\ \A i \in 1..Len(examplesContainer) :
                         examplesContainer'[i] = examplesContainer[i]
          /\ \A k \in 1..Len(examplesContainer) :
                removeExample(examplesContainer[k].exampleId)
                => /\ Len(examplesContainer') = Len(examplesContainer) - 1
                   /\ ~present(examplesContainer', examplesContainer[k].exampleId)
                   /\ \A i \in 1..Len(examplesContainer') :
                         entryData(examplesContainer'[i])
                            = entryData(examplesContainer[IF i < k THEN i ELSE i + 1])]_vars

C19_Witness ==
    /\ exampleCount = 3
    /\ Len(examplesContainer) = 2
    /\ examplesContainer[1].exampleId = 1
    /\ examplesContainer[2].exampleId = 3
    /\ examplesContainer[1].input = " a "
    /\ examplesContainer[2].output = " a "

\* a 2xx generation response is rendered in this step
generationSucceeds ==
    \E i \in 1..Len(generateCalls) : \E result \in GenerationResults :
       generateSuccessResponse(i, result)

\* C20: with the test section hidden at load and a sessionId in every 2xx
\* generation response, the test section is visible only while a session
\* identifier is stored; it is hidden until a generation has succeeded, a 2xx
\* generation response leaves it visible exactly when its optimizationSuccess is
\* true, and no other step (a failed generation, a test call, a validation
\* error, a timeout) changes its visibility.
C20_TestSectionOnlyWithSession ==
    /\ [](/\ testSection = "block" => sessionId \in SessionIds
          /\ pipelineCode = "" => testSection = "none")
    /\ [][/\ \A i \in 1..Len(generateCalls) : \A result \in GenerationResults :
                generateSuccessResponse(i, result)
                => (testSection' = "block" <=> result.optimizationSuccess)
          /\ ~generationSucceeds => UNCHANGED testSection]_vars

C20_Witness ==
    /\ testSection = "block"
    /\ sessionId = "s2"
    /\ statusMessage.textContent = ErrorMarker \o "Failed to generate pipeline"
    /\ testOutput = "block"
    /\ generateCalls = <<>>
====
